---------------------------- MODULE Spec2Model ----------------------------
(***************************************************************************)
(* Model of the MoonForge native crash handler for Android                 *)
(* (src/Plugins/Android/moonforge_crash_handler.c).                        *)
(*                                                                         *)
(* The module holds three layers:                                          *)
(*   - pure operators for the text helpers, the stack unwinder             *)
(*     (unwindCallback / captureStackTrace) and the report serializer      *)
(*     (formatStackTraceJson and the crash JSON snprintf);                 *)
(*   - the process state machine: the kernel's disposition table, the      *)
(*     engine's statics, and one handler invocation per thread, each       *)
(*     statement group of signalHandler being one step;                    *)
(*   - a second state machine that runs the unwinder and the serializer    *)
(*     loop one iteration at a time over a family of stacks and symbol     *)
(*     tables.                                                             *)
(*                                                                         *)
(* Text is modelled by its length and its structure (how many frame        *)
(* objects were begun, how many were stored whole, whether the closing     *)
(* delimiters were stored); names are sequences of one-character strings.  *)
(***************************************************************************)
EXTENDS Integers, Sequences, FiniteSets, TLC

(***************************************************************************)
(* Program constants.                                                      *)
(***************************************************************************)
SIGILL == 4
SIGTRAP == 5
SIGABRT == 6
SIGBUS == 7
SIGFPE == 8
SIGUSR1 == 10
SIGSEGV == 11
SIGPIPE == 13

MAX_FRAMES == 128
StackTraceJsonSize == 16384
CrashJsonBufferSize == 32768
SafetyMargin == 256
FrameLiteralLen == 59
ReportLiteralLen == 100

(***************************************************************************)
(* Bounds of the model.                                                    *)
(***************************************************************************)
NumThreads == 2
MaxDepth == 130
MaxAllocations == 2

NULL == "NULL"

Min(a, b) == IF a < b THEN a ELSE b

(***************************************************************************)
(* Text helpers.  A name is a sequence of one-character strings.           *)
(***************************************************************************)
Rep(c, n) == [k \in 1..n |-> c]

\* Number of characters printf's %d / %td / %lu produce for n.
RECURSIVE NatLen(_, _)
NatLen(n, base) == IF n < base THEN 1 ELSE 1 + NatLen(n \div base, base)

DecLen(n) == IF n < 0 THEN 1 + NatLen(-n, 10) ELSE NatLen(n, 10)

\* Number of characters bionic's %p produces: "0x" and the hexadecimal digits.
PtrLen(p) == 2 + NatLen(p, 16)

\* strrchr(s, c): the index of the last c in s, 0 when there is none.
RECURSIVE LastIndexOf(_, _, _)
LastIndexOf(s, c, k) ==
    IF k = 0 THEN 0
    ELSE IF s[k] = c THEN k
    ELSE LastIndexOf(s, c, k - 1)

\* A variant of the search below: the first occurrence instead of the last.
strchr(s, c) ==
    IF \E k \in 1..Len(s) : s[k] = c
    THEN CHOOSE k \in 1..Len(s) : s[k] = c /\ \A j \in 1..(k - 1) : s[j] # c
    ELSE 0

\* strrchr(s, c) as an index into s: 0 when c does not occur.
strrchr(s, c) == LastIndexOf(s, c, Len(s))

Sentinel == <<"?", "?", "?">>


(***************************************************************************)
(* The stack at the moment captureStackTrace runs.  _Unwind_Backtrace      *)
(* reports the frames from the innermost outwards: first the engine's own  *)
(* frames (captureStackTrace unless the compiler inlined it, then          *)
(* signalHandler), then the kernel's signal trampoline, then the frames    *)
(* of the interrupted code, the faulting one first.  A scenario names the  *)
(* call depth at the fault, which frames report a zero instruction         *)
(* pointer, and whether captureStackTrace was inlined.                     *)
(***************************************************************************)
EngineText == 4096
LibcText == 65536
AppText == 1048576

CrashPC(scen, j) ==
    IF scen.zeroEvery > 0 /\ j % scen.zeroEvery = 0 THEN 0 ELSE AppText + 16 * j

EngineFrames(scen) ==
    IF scen.inlined
    THEN <<EngineText + 16, LibcText + 16>>
    ELSE <<EngineText + 32, EngineText + 16, LibcText + 16>>

Walk(scen) == EngineFrames(scen) \o [j \in 1..scen.depth |-> CrashPC(scen, j)]

(***************************************************************************)
(* unwindCallback (lines 91-103) on a BacktraceState [buf, current, end].  *)
(* First a variant without the test of lines 96-98, then the callback.     *)
(***************************************************************************)
unwindCallbackNoLimit(state, pc) ==
    IF pc # 0
    THEN [state |-> [state EXCEPT !.buf = [k \in (DOMAIN state.buf) \cup {state.current}
                                             |-> IF k = state.current THEN pc ELSE state.buf[k]],
                                  !.current = state.current + 1],
          rc |-> "_URC_NO_REASON"]
    ELSE [state |-> state, rc |-> "_URC_NO_REASON"]

unwindCallback(state, pc) ==
    IF pc # 0
    THEN IF state.current = state.end
         THEN [state |-> state, rc |-> "_URC_END_OF_STACK"]
         ELSE [state |-> [state EXCEPT !.buf[state.current] = pc,
                                       !.current = state.current + 1],
               rc |-> "_URC_NO_REASON"]
    ELSE [state |-> state, rc |-> "_URC_NO_REASON"]

\* _Unwind_Backtrace: calls the callback for the frames lo..hi of the walk in
\* order, until the callback asks to stop or the stack ends.  r is the result
\* of the last call made.  (The range is split in halves only to keep the
\* evaluation shallow; the frames are visited in order.)
RECURSIVE UnwindBacktrace(_, _, _, _)
UnwindBacktrace(walk, lo, hi, r) ==
    IF lo > hi THEN r
    ELSE IF lo = hi
    THEN (IF r.rc # "_URC_NO_REASON" THEN r ELSE unwindCallback(r.state, walk[lo]))
    ELSE LET mid == (lo + hi) \div 2
             left == UnwindBacktrace(walk, lo, mid, r)
         IN  IF left.rc # "_URC_NO_REASON" THEN left
             ELSE UnwindBacktrace(walk, mid + 1, hi, left)

\* captureStackTrace (lines 106-110): the buffer after the walk and the count.
captureStackTrace(buffer, maxFrames, walk) ==
    LET state == [buf |-> buffer, current |-> 0, end |-> maxFrames]
        r == UnwindBacktrace(walk, 1, Len(walk), [state |-> state, rc |-> "_URC_NO_REASON"])
    IN  [buffer |-> r.state.buf, count |-> r.state.current - 0]

ZeroFrames == [k \in 0..(MAX_FRAMES - 1) |-> 0]

(***************************************************************************)
(* dladdr under a symbol table.  kind "none": no address resolves;         *)
(* "stripped": the module is known, no symbol; "bare": the module path     *)
(* has no directory part; "full": module path and symbol; "mixed": every   *)
(* other code address resolves as "full", the rest not at all.             *)
(***************************************************************************)
ModulePath == <<"/", "l", "i", "b", "/", "l", "i", "b", "u", "n", "i", "t", "y", ".", "s", "o">>
BareModule == <<"l", "i", "b", "c", ".", "s", "o">>
SymbolSpan == 64

\* A const char* of Dl_info: the null pointer, or a name.
NullStr == [null |-> TRUE, str |-> <<>>]
Str(s) == [null |-> FALSE, str |-> s]

NoInfo == [ok |-> FALSE, dli_fname |-> NullStr, dli_sname |-> NullStr, dli_saddr |-> 0]

dladdr(symtab, addr) ==
    LET sym == [ok |-> TRUE, dli_fname |-> Str(ModulePath),
                dli_sname |-> Str(Rep("f", symtab.symLen)),
                dli_saddr |-> addr - (addr % SymbolSpan)]
    IN  CASE symtab.kind = "none" -> NoInfo
          [] symtab.kind = "stripped" -> [sym EXCEPT !.dli_sname = NullStr, !.dli_saddr = 0]
          [] symtab.kind = "bare" -> [sym EXCEPT !.dli_fname = Str(BareModule)]
          [] symtab.kind = "full" -> sym
          [] symtab.kind = "mixed" -> IF (addr \div 16) % 2 = 0 THEN sym ELSE NoInfo

(***************************************************************************)
(* snprintf(buffer + offset, bufferSize - offset, text of length len).     *)
(* The size argument is a size_t: when offset > bufferSize the             *)
(* subtraction wraps to a huge value, nothing is truncated and the text    *)
(* lands beyond the end of the buffer.  ret is the length the text would   *)
(* have had; stored the characters put into the buffer.                    *)
(***************************************************************************)
Snprintf(bufferSize, offset, len) ==
    LET size == bufferSize - offset
    IN  [ret |-> len,
         stored |-> IF size < 0 THEN 0
                    ELSE IF size = 0 THEN 0
                    ELSE Min(len, size - 1),
         underflow |-> size < 0]

\* Resolution of one frame (lines 122-140).
ResolveFrame(symtab, addr) ==
    LET info == dladdr(symtab, addr)
        hasSym == info.ok /\ ~info.dli_sname.null
        hasMod == info.ok /\ ~info.dli_fname.null
        fname == info.dli_fname.str
        lastSlash == IF hasMod THEN strrchr(fname, "/") ELSE 0
    IN  [symbolName |-> IF hasSym THEN info.dli_sname.str ELSE Sentinel,
         symbolOffset |-> IF hasSym THEN addr - info.dli_saddr ELSE 0,
         moduleName |-> IF hasMod
                        THEN (IF lastSlash # 0
                              THEN SubSeq(fname, lastSlash + 1, Len(fname))
                              ELSE fname)
                        ELSE Sentinel]

\* Length of one frame object as printed at lines 142-144.
FrameEntryLen(i, addr, res) ==
    FrameLiteralLen + DecLen(i) + PtrLen(addr) + Len(res.moduleName)
        + Len(res.symbolName) + DecLen(res.symbolOffset)

(***************************************************************************)
(* formatStackTraceJson (lines 113-148).  The writer state w holds the     *)
(* running offset, the number of frame objects begun, the number stored    *)
(* whole, whether the closing bracket was stored, whether a write was      *)
(* made with an underflowed size, and the length of the string the buffer   *)
(* holds.                                                                  *)
(***************************************************************************)
FormatOpen(bufferSize) ==
    LET r == Snprintf(bufferSize, 0, 1)
    IN  [offset |-> r.ret, frames |-> 0, whole |-> 0, closed |-> FALSE,
         underflow |-> r.underflow, strlen |-> r.stored]

FormatLoopCond(bufferSize, w, i, frameCount) ==
    i < frameCount /\ w.offset < bufferSize - SafetyMargin

Put(bufferSize, w, len) ==
    LET r == Snprintf(bufferSize, w.offset, len)
    IN  [w EXCEPT !.offset = w.offset + r.ret,
                  !.underflow = w.underflow \/ r.underflow,
                  !.strlen = IF r.stored > 0 THEN w.offset + r.stored ELSE w.strlen]

FormatFrame(bufferSize, w, i, frames, symtab) ==
    LET w1 == IF i > 0 THEN Put(bufferSize, w, 1) ELSE w
        addr == frames[i]
        len == FrameEntryLen(i, addr, ResolveFrame(symtab, addr))
        r == Snprintf(bufferSize, w1.offset, len)
        w2 == Put(bufferSize, w1, len)
    IN  [w2 EXCEPT !.frames = w.frames + 1,
                   !.whole = w.whole + (IF r.stored = len /\ ~r.underflow THEN 1 ELSE 0)]

FormatClose(bufferSize, w) ==
    LET r == Snprintf(bufferSize, w.offset, 1)
    IN  [Put(bufferSize, w, 1) EXCEPT !.closed = (r.stored = 1)]

\* The for loop of lines 117-145 over i = lo..hi: an iteration runs when the
\* loop condition holds; once it fails the loop is over, as the condition
\* cannot hold again (i and the offset only grow).  (The range is split in
\* halves only to keep the evaluation shallow.)
RECURSIVE FormatLoop(_, _, _, _, _, _, _)
FormatLoop(bufferSize, w, lo, hi, frames, frameCount, symtab) ==
    IF lo > hi THEN w
    ELSE IF lo = hi
    THEN (IF FormatLoopCond(bufferSize, w, lo, frameCount)
          THEN FormatFrame(bufferSize, w, lo, frames, symtab)
          ELSE w)
    ELSE LET mid == (lo + hi) \div 2
             left == FormatLoop(bufferSize, w, lo, mid, frames, frameCount, symtab)
         IN  IF FormatLoopCond(bufferSize, left, mid + 1, frameCount)
             THEN FormatLoop(bufferSize, left, mid + 1, hi, frames, frameCount, symtab)
             ELSE left

formatStackTraceJson(bufferSize, frames, frameCount, symtab) ==
    FormatClose(bufferSize,
                FormatLoop(bufferSize, FormatOpen(bufferSize), 0, frameCount - 1,
                           frames, frameCount, symtab))


(***************************************************************************)
(* Signal names and descriptions (lines 64-88), as their lengths matter    *)
(* to the report.                                                          *)
(***************************************************************************)
signalName(signal) ==
    CASE signal = SIGABRT -> "SIGABRT"
      [] signal = SIGBUS -> "SIGBUS"
      [] signal = SIGFPE -> "SIGFPE"
      [] signal = SIGILL -> "SIGILL"
      [] signal = SIGSEGV -> "SIGSEGV"
      [] signal = SIGTRAP -> "SIGTRAP"
      [] signal = SIGPIPE -> "SIGPIPE"
      [] OTHER -> "UNKNOWN"

signalDescription(signal) ==
    CASE signal = SIGABRT -> "Abort signal"
      [] signal = SIGBUS -> "Bus error (bad memory access)"
      [] signal = SIGFPE -> "Floating-point exception"
      [] signal = SIGILL -> "Illegal instruction"
      [] signal = SIGSEGV -> "Segmentation fault (invalid memory reference)"
      [] signal = SIGTRAP -> "Trace/breakpoint trap"
      [] signal = SIGPIPE -> "Broken pipe"
      [] OTHER -> "Unknown signal"

\* The crash JSON (lines 174-191): what crashJsonBuffer holds after the
\* snprintf, given the frames text written by formatStackTraceJson.
BuildCrashJson(signal, info, thread, json) ==
    LET len == ReportLiteralLen + DecLen(signal) + Len(signalName(signal))
                 + Len(signalDescription(signal)) + PtrLen(info.si_addr)
                 + DecLen(thread) + DecLen(info.si_code) + json.strlen
        r == Snprintf(CrashJsonBufferSize, 0, len)
    IN  [signal |-> signal, signalName |-> signalName(signal),
         frames |-> json.frames, whole |-> json.whole,
         arrayClosed |-> json.closed, objectClosed |-> (r.stored = len)]

NoReport == [signal |-> 0, signalName |-> "", frames |-> 0, whole |-> 0,
             arrayClosed |-> FALSE, objectClosed |-> FALSE]

\* Every frame object begun is closed, and so are the array and the object.
WellFormed(report) ==
    report.whole = report.frames /\ report.arrayClosed /\ report.objectClosed


(***************************************************************************)
(* The process.                                                            *)
(***************************************************************************)
Threads == 1..NumThreads

\* The thread that calls the public API.
ControllingThread == CHOOSE t \in Threads : \A u \in Threads : t <= u

kSignalsToHandle == <<SIGABRT, SIGBUS, SIGFPE, SIGILL, SIGSEGV, SIGTRAP, SIGPIPE>>
kNumSignals == Len(kSignalsToHandle)
Handled == {kSignalsToHandle[i] : i \in 1..kNumSignals}

\* The signals of the model: those of kSignalsToHandle and SIGUSR1.
Signals == Handled \cup {SIGUSR1}

\* The signals the model delivers.
DeliveredSignals == {SIGSEGV, SIGPIPE, SIGUSR1}

\* A disposition: the default action, ignore, a handler the host installed,
\* or the engine's signalHandler.
Dispositions == {"SIG_DFL", "SIG_IGN", "hostHandler", "signalHandler"}

Callbacks == {"cb1", "cb2"}

\* Disposition tables a host process can start the engine with.
HostTables ==
    { [s \in Signals |-> "SIG_DFL"],
      [s \in Signals |-> IF s \in {SIGPIPE, SIGTRAP} THEN "SIG_IGN"
                         ELSE IF s = SIGUSR1 THEN "SIG_DFL" ELSE "hostHandler"] }

\* The sets of signals whose installation can fail in one initialize.
FailCandidates == {SIGSEGV, SIGPIPE}
FailSets == SUBSET FailCandidates

SymLens == {48, 300}
SymKinds == {"none", "stripped", "bare", "full", "mixed"}
SymTabs == {[kind |-> k, symLen |-> n] : k \in SymKinds, n \in SymLens}
ProcessSymTabs == {[kind |-> "full", symLen |-> 48]}

Scenarios == [depth : 0..MaxDepth, zeroEvery : {0, 3, 64}, inlined : BOOLEAN]
CrashScenarios == {[depth |-> 2, zeroEvery |-> 0, inlined |-> TRUE],
                   [depth |-> 6, zeroEvery |-> 3, inlined |-> FALSE]}
NoScenario == [depth |-> 0, zeroEvery |-> 0, inlined |-> TRUE]

FaultInfos == {[si_addr |-> 0, si_code |-> 1]}
NoFault == [si_addr |-> 0, si_code |-> 0]

NoJson == [offset |-> 0, frames |-> 0, whole |-> 0, closed |-> FALSE,
           underflow |-> FALSE, strlen |-> 0]

IdleThread ==
    [pc |-> "idle", sig |-> 0, scen |-> NoScenario, info |-> NoFault, json |-> NoJson,
     stack |-> "none"]

\* The last thing that happened: an API call (op "initialize", "shutdown",
\* "isInitialized"; noop tells whether it returned early), or what became of
\* a signal: "deliver" (the kernel ran disposition by), "declined" (the
\* engine's handler returned at the guard), "reraised" (the handler re-raised
\* the signal and the kernel ran disposition by).
Op(op, noop, callback, sig, by) ==
    [op |-> op, noop |-> noop, callback |-> callback, sig |-> sig, by |-> by]

ApiOp(op, noop, callback) == Op(op, noop, callback, 0, "none")
SigOp(op, sig, by) == Op(op, FALSE, NULL, sig, by)

\* The locals symbolName, moduleName, symbolOffset before any lookup.
NoResolution == [symbolName |-> <<>>, symbolOffset |-> 0, moduleName |-> <<>>]

SerOff == [pc |-> "off", scen |-> NoScenario, i |-> 0, w |-> NoJson, res |-> NoResolution]

VARIABLES
    disp,               \* the kernel's disposition of each signal
    previousHandlers,   \* static struct sigaction previousHandlers[NSIG]
    crashCallback,      \* static MoonForgeCrashCallback crashCallback
    isHandlingCrash,    \* static volatile sig_atomic_t isHandlingCrash
    isInitialized,      \* static int isInitialized
    stackFrames,        \* static void* stackFrames[MAX_FRAMES]
    stackFrameCount,    \* static int stackFrameCount
    crashJsonBuffer,    \* static char crashJsonBuffer[32768]
    symtab,             \* the symbols dladdr can see in this process
    thr,                \* per thread: the handler invocation in progress
    alive,              \* FALSE once a default action has ended the process
    cbLog,              \* the callback invocations so far: callback and report
    preInit,            \* the disposition table just before the last such call
    cycle,              \* what happened since that call
    lastOp,             \* the last API call or signal outcome
    ser,                \* the unwinder/serializer run of SerSpec
    altStack,           \* per thread: an alternate signal stack is registered
    allocations,        \* the malloc(SIGSTKSZ) regions obtained so far
    installFailed       \* the signals whose install failed in the last initialize

vars == <<disp, previousHandlers, crashCallback, isHandlingCrash, isInitialized,
          stackFrames, stackFrameCount, crashJsonBuffer, symtab, thr, alive,
          cbLog, preInit, cycle, lastOp, ser, altStack, allocations, installFailed>>

\* What only initialize writes.
initFrame == <<altStack, allocations, installFailed>>

TypeOK ==
    /\ disp \in [Signals -> Dispositions]
    /\ previousHandlers \in [Signals -> Dispositions]
    /\ crashCallback \in Callbacks \cup {NULL}
    /\ isHandlingCrash \in {0, 1}
    /\ isInitialized \in {0, 1}
    /\ stackFrameCount \in Nat
    /\ alive \in BOOLEAN
    /\ altStack \in [Threads -> BOOLEAN]
    /\ allocations \in 0..MaxAllocations
    /\ installFailed \subseteq Handled

InitEngine ==
    /\ previousHandlers = [s \in Signals |-> "SIG_DFL"]
    /\ crashCallback = NULL
    /\ isHandlingCrash = 0
    /\ isInitialized = 0
    /\ stackFrames = ZeroFrames
    /\ stackFrameCount = 0
    /\ crashJsonBuffer = NoReport
    /\ thr = [t \in Threads |-> IdleThread]
    /\ alive = TRUE
    /\ cbLog = <<>>
    /\ cycle = "none"
    /\ lastOp = ApiOp("none", FALSE, NULL)
    /\ altStack = [t \in Threads |-> FALSE]
    /\ allocations = 0
    /\ installFailed = {}

Init ==
    /\ InitEngine
    /\ disp \in HostTables
    /\ preInit = disp
    /\ symtab \in ProcessSymTabs
    /\ ser = SerOff

AllIdle == \A t \in Threads : thr[t].pc = "idle"

(***************************************************************************)
(* sigaction(sig, new, old) on the pair of tables [disp, prev]: when it    *)
(* fails it changes nothing; otherwise it stores the current disposition   *)
(* in the old record and installs the engine's handler.                    *)
(***************************************************************************)
\* A variant of the call below: the old record is read after the new
\* disposition is in place.
InstallOneSaveAfter(tbl, sig, fails) ==
    IF fails THEN tbl
    ELSE [disp |-> [tbl.disp EXCEPT ![sig] = "signalHandler"],
          prev |-> [tbl.prev EXCEPT ![sig] = "signalHandler"]]

InstallOne(tbl, sig, fails) ==
    IF fails THEN tbl
    ELSE [disp |-> [tbl.disp EXCEPT ![sig] = "signalHandler"],
          prev |-> [tbl.prev EXCEPT ![sig] = tbl.disp[sig]]]

\* A variant of the loop below: an install loop that gives up at the first
\* failure.
RECURSIVE InstallLoopStopAtFailure(_, _, _)
InstallLoopStopAtFailure(i, tbl, fail) ==
    IF i > kNumSignals \/ kSignalsToHandle[i] \in fail THEN tbl
    ELSE InstallLoopStopAtFailure(i + 1, InstallOne(tbl, kSignalsToHandle[i], FALSE), fail)

\* The loop of lines 223-236.
RECURSIVE InstallLoop(_, _, _)
InstallLoop(i, tbl, fail) ==
    IF i > kNumSignals THEN tbl
    ELSE InstallLoop(i + 1,
                     InstallOne(tbl, kSignalsToHandle[i], kSignalsToHandle[i] \in fail),
                     fail)

\* The loop of lines 257-260.
RECURSIVE RestoreLoop(_, _, _)
RestoreLoop(i, d, prev) ==
    IF i > kNumSignals THEN d
    ELSE RestoreLoop(i + 1, [d EXCEPT ![kSignalsToHandle[i]] = prev[kSignalsToHandle[i]]], prev)

\* A variant of the test below: an initialize that never returns early.
NeverAlreadyInitialized == FALSE

\* MoonForge_Android_InitializeCrashHandler (lines 214-249).  The API is
\* called from the controlling thread while no handler invocation is in
\* progress.  malloc(SIGSTKSZ) can fail; the region it returns is never
\* freed, and sigaltstack registers it for the calling thread only.
AlreadyInitialized == isInitialized # 0

Initialize(callback, fail, mallocOk) ==
    /\ alive /\ AllIdle
    /\ IF AlreadyInitialized
       THEN /\ lastOp' = ApiOp("initialize", TRUE, callback)
            /\ UNCHANGED <<disp, previousHandlers, crashCallback, isInitialized,
                           preInit, cycle, initFrame>>
       ELSE /\ LET tbl == InstallLoop(1, [disp |-> disp, prev |-> previousHandlers], fail)
               IN  /\ disp' = tbl.disp
                   /\ previousHandlers' = tbl.prev
            /\ crashCallback' = callback
            /\ isInitialized' = 1
            /\ preInit' = disp
            /\ cycle' = IF fail = {} THEN "clean-init" ELSE "partial-init"
            /\ installFailed' = fail
            /\ mallocOk => allocations < MaxAllocations
            /\ IF mallocOk
               THEN /\ allocations' = allocations + 1
                    /\ altStack' = [altStack EXCEPT ![ControllingThread] = TRUE]
               ELSE UNCHANGED <<allocations, altStack>>
            /\ lastOp' = ApiOp("initialize", FALSE, callback)
    /\ UNCHANGED <<isHandlingCrash, stackFrames, stackFrameCount, crashJsonBuffer,
                   symtab, thr, alive, cbLog, ser>>

\* A variant of the restore below: shutdown resets to the default action.
ShutdownToDefault(sig) == "SIG_DFL"

\* MoonForge_Android_ShutdownCrashHandler (lines 251-265).
ShutdownDisposition(sig) == previousHandlers[sig]

\* A variant of the test below: a shutdown that never returns early.
NeverNotInitialized == FALSE

\* Lines 252-254: if (!isInitialized) return.
NotInitialized == isInitialized = 0

Shutdown ==
    /\ alive /\ AllIdle
    /\ IF NotInitialized
       THEN /\ lastOp' = ApiOp("shutdown", TRUE, NULL)
            /\ UNCHANGED <<disp, crashCallback, isInitialized, cycle>>
       ELSE /\ disp' = RestoreLoop(1, disp, [s \in Signals |-> ShutdownDisposition(s)])
            /\ crashCallback' = NULL
            /\ isInitialized' = 0
            /\ cycle' = IF cycle = "clean-init" THEN "clean-shutdown" ELSE "shutdown"
            /\ lastOp' = ApiOp("shutdown", FALSE, NULL)
    /\ UNCHANGED <<previousHandlers, isHandlingCrash, stackFrames, stackFrameCount,
                   crashJsonBuffer, symtab, thr, alive, cbLog,
                   preInit, ser, initFrame>>

\* MoonForge_Android_IsInitialized (lines 267-269).
IsInitialized ==
    /\ alive /\ AllIdle
    /\ lastOp' = Op("isInitialized", FALSE, NULL, isInitialized, "none")
    /\ UNCHANGED <<disp, previousHandlers, crashCallback, isHandlingCrash, isInitialized,
                   stackFrames, stackFrameCount, crashJsonBuffer, symtab, thr, alive,
                   cbLog, preInit, cycle, ser, initFrame>>

(***************************************************************************)
(* Delivery of signal sig to thread t.  The kernel runs the disposition    *)
(* installed for sig: the engine's handler starts on t, the default        *)
(* action ends the process, SIG_IGN and a host handler let it go on.       *)
(***************************************************************************)
\* The stack a handler installed with SA_ONSTACK (line 229) runs on: the
\* alternate stack of the receiving thread when that thread registered one
\* with sigaltstack, the thread's normal stack otherwise.
HandlerStack(t) == IF altStack[t] THEN "alternate" ELSE "normal"

Deliver(t, sig, scen, info) ==
    /\ alive
    /\ thr[t].pc = "idle"
    /\ cycle' = IF cycle = "clean-init" THEN "dirty-init" ELSE cycle
    /\ lastOp' = SigOp("deliver", sig, disp[sig])
    /\ IF disp[sig] = "signalHandler"
       THEN /\ thr' = [thr EXCEPT ![t] = [pc |-> "entry", sig |-> sig, scen |-> scen,
                                          info |-> info, json |-> NoJson,
                                          stack |-> HandlerStack(t)]]
            /\ alive' = alive
       ELSE /\ thr' = thr
            /\ alive' = (disp[sig] # "SIG_DFL")
    /\ UNCHANGED <<disp, previousHandlers, crashCallback, isHandlingCrash, isInitialized,
                   stackFrames, stackFrameCount, crashJsonBuffer, symtab, cbLog,
                   preInit, ser, initFrame>>

\* A delivery while no handler invocation is in progress on any thread.
DeliverSeq(t, sig, scen, info) == AllIdle /\ Deliver(t, sig, scen, info)

(***************************************************************************)
(* signalHandler (lines 151-206), one step per statement group.            *)
(***************************************************************************)
\* A variant of the test below: a handler without the re-entry test.
GuardNeverSet == FALSE

\* Lines 153-155: the test of isHandlingCrash.
GuardSet == isHandlingCrash # 0

HGuardTest(t) ==
    /\ alive
    /\ thr[t].pc = "entry"
    /\ IF GuardSet
       THEN /\ thr' = [thr EXCEPT ![t] = IdleThread]
            /\ lastOp' = SigOp("declined", thr[t].sig, "none")
       ELSE /\ thr' = [thr EXCEPT ![t].pc = "passed"]
            /\ lastOp' = lastOp
    /\ UNCHANGED <<disp, previousHandlers, crashCallback, isHandlingCrash, isInitialized,
                   stackFrames, stackFrameCount, crashJsonBuffer, symtab, alive, cbLog,
                   preInit, cycle, ser, initFrame>>

\* Line 156: isHandlingCrash = 1.
HGuardStore(t) ==
    /\ alive
    /\ thr[t].pc = "passed"
    /\ isHandlingCrash' = 1
    /\ thr' = [thr EXCEPT ![t].pc = "handling"]
    /\ UNCHANGED <<disp, previousHandlers, crashCallback, isInitialized,
                   stackFrames, stackFrameCount, crashJsonBuffer, symtab, alive, cbLog,
                   preInit, cycle, lastOp, ser, initFrame>>

\* Line 164: stackFrameCount = captureStackTrace(stackFrames, MAX_FRAMES).
HCapture(t) ==
    /\ alive
    /\ thr[t].pc = "handling"
    /\ LET r == captureStackTrace(stackFrames, MAX_FRAMES, Walk(thr[t].scen))
       IN  /\ stackFrames' = r.buffer
           /\ stackFrameCount' = r.count
    /\ thr' = [thr EXCEPT ![t].pc = "captured"]
    /\ UNCHANGED <<disp, previousHandlers, crashCallback, isHandlingCrash, isInitialized,
                   crashJsonBuffer, symtab, alive, cbLog,
                   preInit, cycle, lastOp, ser, initFrame>>

\* Lines 167-168: formatStackTraceJson into the local stackTraceJson.  A
\* write made with an underflowed size lands beyond the local array: the
\* handler either goes on or the process is lost.
HFormat(t) ==
    /\ alive
    /\ thr[t].pc = "captured"
    /\ LET json == formatStackTraceJson(StackTraceJsonSize, stackFrames, stackFrameCount, symtab)
       IN  /\ thr' = [thr EXCEPT ![t].pc = "formatted", ![t].json = json]
           /\ IF json.underflow THEN alive' \in BOOLEAN ELSE alive' = alive
    /\ UNCHANGED <<disp, previousHandlers, crashCallback, isHandlingCrash, isInitialized,
                   stackFrames, stackFrameCount, crashJsonBuffer, symtab, cbLog,
                   preInit, cycle, lastOp, ser, initFrame>>

\* Lines 171-191: the crash JSON is built in crashJsonBuffer.
HBuild(t) ==
    /\ alive
    /\ thr[t].pc = "formatted"
    /\ crashJsonBuffer' = BuildCrashJson(thr[t].sig, thr[t].info, t, thr[t].json)
    /\ thr' = [thr EXCEPT ![t].pc = "built"]
    /\ UNCHANGED <<disp, previousHandlers, crashCallback, isHandlingCrash, isInitialized,
                   stackFrames, stackFrameCount, symtab, alive, cbLog,
                   preInit, cycle, lastOp, ser, initFrame>>

\* Lines 194-196: the callback, when one is registered.
HCallback(t) ==
    /\ alive
    /\ thr[t].pc = "built"
    /\ IF crashCallback # NULL
       THEN cbLog' = Append(cbLog, [callback |-> crashCallback, thread |-> t,
                                    sig |-> thr[t].sig, report |-> crashJsonBuffer])
       ELSE cbLog' = cbLog
    /\ thr' = [thr EXCEPT ![t].pc = "called"]
    /\ UNCHANGED <<disp, previousHandlers, crashCallback, isHandlingCrash, isInitialized,
                   stackFrames, stackFrameCount, crashJsonBuffer, symtab, alive,
                   preInit, cycle, lastOp, ser, initFrame>>

\* A variant of the restore below: the handler resets to the default action.
RestoredToDefault(sig) == "SIG_DFL"

\* Lines 199-202: sigaction(signal, &previousHandlers[signal], NULL).
RestoredDisposition(sig) == previousHandlers[sig]

\* A variant of the set below: the handler restores every signal of the set.
RestoredAllSignals(sig) == Handled

\* Line 202: the signal whose disposition the sigaction call replaces.
RestoredSignals(sig) == {sig}

HRestore(t) ==
    /\ alive
    /\ thr[t].pc = "called"
    /\ disp' = [s \in Signals |-> IF s \in RestoredSignals(thr[t].sig)
                                  THEN RestoredDisposition(s)
                                  ELSE disp[s]]
    /\ thr' = [thr EXCEPT ![t].pc = "restored"]
    /\ UNCHANGED <<previousHandlers, crashCallback, isHandlingCrash, isInitialized,
                   stackFrames, stackFrameCount, crashJsonBuffer, symtab, alive, cbLog,
                   preInit, cycle, lastOp, ser, initFrame>>

\* Line 205 and the return: raise(signal) leaves the signal pending while
\* the handler runs (it is blocked on this thread); when the handler
\* returns, the kernel delivers it under the disposition then installed.
HRaise(t) ==
    /\ alive
    /\ thr[t].pc = "restored"
    /\ LET sig == thr[t].sig
           by == disp[sig]
       IN  /\ lastOp' = SigOp("reraised", sig, by)
           /\ IF by = "signalHandler"
              THEN /\ thr' = [thr EXCEPT ![t].pc = "entry", ![t].json = NoJson]
                   /\ alive' = alive
              ELSE /\ thr' = [thr EXCEPT ![t] = IdleThread]
                   /\ alive' = (by # "SIG_DFL")
    /\ UNCHANGED <<disp, previousHandlers, crashCallback, isHandlingCrash, isInitialized,
                   stackFrames, stackFrameCount, crashJsonBuffer, symtab, cbLog,
                   preInit, cycle, ser, initFrame>>

HandlerStep(t) ==
    \/ HGuardTest(t)
    \/ HGuardStore(t)
    \/ HCapture(t)
    \/ HFormat(t)
    \/ HBuild(t)
    \/ HCallback(t)
    \/ HRestore(t)
    \/ HRaise(t)

Next ==
    \/ \E callback \in Callbacks \cup {NULL}, fail \in FailSets, mallocOk \in BOOLEAN :
          Initialize(callback, fail, mallocOk)
    \/ Shutdown
    \/ IsInitialized
    \/ \E t \in Threads, sig \in DeliveredSignals, scen \in CrashScenarios, info \in FaultInfos :
          Deliver(t, sig, scen, info)
    \/ \E t \in Threads : HandlerStep(t)

Spec == Init /\ [][Next]_vars

\* The same process when signals never overlap: a signal is delivered only
\* while no handler invocation is in progress.
NextSeq ==
    \/ \E callback \in Callbacks \cup {NULL}, fail \in FailSets, mallocOk \in BOOLEAN :
          Initialize(callback, fail, mallocOk)
    \/ Shutdown
    \/ IsInitialized
    \/ \E t \in Threads, sig \in DeliveredSignals, scen \in CrashScenarios, info \in FaultInfos :
          DeliverSeq(t, sig, scen, info)
    \/ \E t \in Threads : HandlerStep(t)

SpecSeq == Init /\ [][NextSeq]_vars


(***************************************************************************)
(* The unwinder and the serializer alone, over a family of stacks and      *)
(* symbol tables: the handler's capture, then formatStackTraceJson one     *)
(* loop iteration at a time, then the crash JSON.                          *)
(***************************************************************************)
SerInit ==
    /\ InitEngine
    /\ disp = [s \in Signals |-> "SIG_DFL"]
    /\ preInit = disp
    /\ symtab \in SymTabs
    /\ ser \in {[pc |-> "start", scen |-> sc, i |-> 0, w |-> NoJson, res |-> NoResolution] :
                  sc \in Scenarios}

serFrame == <<disp, previousHandlers, crashCallback, isHandlingCrash, isInitialized,
              symtab, thr, alive, cbLog, preInit, cycle, lastOp, initFrame>>

\* Line 164.
SerCapture ==
    /\ ser.pc = "start"
    /\ LET r == captureStackTrace(stackFrames, MAX_FRAMES, Walk(ser.scen))
       IN  /\ stackFrames' = r.buffer
           /\ stackFrameCount' = r.count
    /\ ser' = [ser EXCEPT !.pc = "captured"]
    /\ UNCHANGED <<serFrame, crashJsonBuffer>>

\* Lines 114-115.
SerOpen ==
    /\ ser.pc = "captured"
    /\ ser' = [ser EXCEPT !.pc = "loop", !.i = 0, !.w = FormatOpen(StackTraceJsonSize)]
    /\ UNCHANGED <<serFrame, stackFrames, stackFrameCount, crashJsonBuffer>>

\* Lines 117-145: one iteration.
SerFrame ==
    /\ ser.pc = "loop"
    /\ FormatLoopCond(StackTraceJsonSize, ser.w, ser.i, stackFrameCount)
    /\ ser' = [ser EXCEPT !.i = ser.i + 1,
                          !.w = FormatFrame(StackTraceJsonSize, ser.w, ser.i, stackFrames, symtab),
                          !.res = ResolveFrame(symtab, stackFrames[ser.i])]
    /\ UNCHANGED <<serFrame, stackFrames, stackFrameCount, crashJsonBuffer>>

\* Line 147.
SerClose ==
    /\ ser.pc = "loop"
    /\ ~FormatLoopCond(StackTraceJsonSize, ser.w, ser.i, stackFrameCount)
    /\ ser' = [ser EXCEPT !.pc = "closed", !.w = FormatClose(StackTraceJsonSize, ser.w)]
    /\ UNCHANGED <<serFrame, stackFrames, stackFrameCount, crashJsonBuffer>>

\* Lines 174-191.
SerBuild ==
    /\ ser.pc = "closed"
    /\ \E info \in FaultInfos :
          crashJsonBuffer' = BuildCrashJson(SIGSEGV, info, 1, ser.w)
    /\ ser' = [ser EXCEPT !.pc = "built"]
    /\ UNCHANGED <<serFrame, stackFrames, stackFrameCount>>

SerNext ==
    \/ SerCapture
    \/ SerOpen
    \/ SerFrame
    \/ SerClose
    \/ SerBuild

SerSpec == SerInit /\ [][SerNext]_vars

\* The loop run one iteration at a time ends where formatStackTraceJson does.
SerAgrees ==
    ser.pc = "closed" =>
        ser.w = formatStackTraceJson(StackTraceJsonSize, stackFrames, stackFrameCount, symtab)


(***************************************************************************)
(* Properties.                                                             *)
(***************************************************************************)

\* C1: initialize while already initialized is a no-op: an initialize call
\* made while isInitialized is set returns early and leaves every
\* disposition, every saved record, the callback and the flag as they were
\* (so no sigaction installed anything and the second callback is dropped).
C1_InitializeTwiceIsNoOp ==
    [][(isInitialized # 0 /\ AllIdle /\ AllIdle' /\ lastOp'.op = "initialize")
         => /\ lastOp'.noop
            /\ UNCHANGED <<disp, previousHandlers, crashCallback, isInitialized>>]_vars

C1_Witness ==
    /\ lastOp.op = "initialize" /\ lastOp.noop
    /\ isInitialized = 1
    /\ lastOp.callback # crashCallback
    /\ \E s \in Handled : disp[s] = "signalHandler" /\ previousHandlers[s] = "hostHandler"

\* C2: after an initialize whose installs all succeeded and a shutdown with
\* no signal delivered in between, every handled signal has the disposition
\* it had just before that initialize; a handled signal delivered then is
\* run by that disposition, and the engine's handler (hence the callback)
\* does not run.
C2_ShutdownRestoresOriginal ==
    cycle = "clean-shutdown" =>
        /\ \A s \in Handled : disp[s] = preInit[s]
        /\ AllIdle
        /\ (lastOp.op = "deliver" /\ lastOp.sig \in Handled) =>
               (lastOp.by = preInit[lastOp.sig] /\ lastOp.by # "signalHandler")

C2_Witness ==
    /\ cycle = "clean-shutdown"
    /\ lastOp.op = "deliver" /\ lastOp.sig \in Handled
    /\ lastOp.by = "hostHandler"
    /\ cbLog = <<>>

\* C3: when signals do not overlap, the callback is invoked at most once in
\* the life of the process, whatever initialize and shutdown calls are
\* made, and the guard, once set, stays set.
C3_CallbackAtMostOnce ==
    /\ [](Len(cbLog) <= 1)
    /\ [][isHandlingCrash # 0 => isHandlingCrash' # 0]_vars

C3_Witness ==
    /\ Len(cbLog) = 1
    /\ lastOp.op = "declined"
    /\ crashCallback \in Callbacks
    /\ crashCallback # cbLog[1].callback

\* C4: at most one handler invocation is past the guard at any time, and the
\* callback is invoked at most once, also when signals arrive on several
\* threads at once.
PastGuard(t) == thr[t].pc \notin {"idle", "entry"}

C4_OneInvocationPastGuard ==
    /\ Cardinality({t \in Threads : PastGuard(t)}) <= 1
    /\ Len(cbLog) <= 1

\* C5: a handled signal that reaches the engine's handler while the guard is
\* set builds no report, invokes no callback, and is left to its saved or
\* default disposition: it is that disposition which acts, and the engine's
\* handler is no longer the one installed for it.
C5_LaterSignalLeftToPrevious ==
    [][\A t \in Threads :
          (thr[t].pc = "entry" /\ isHandlingCrash # 0 /\ thr'[t].pc # "entry")
            => /\ cbLog' = cbLog
               /\ crashJsonBuffer' = crashJsonBuffer
               /\ lastOp'.by \in {previousHandlers[thr[t].sig], "SIG_DFL"}
               /\ disp'[thr[t].sig] # "signalHandler"]_vars

\* C6: the steps of the invocation that passes the guard come in the order
\* capture, serialize, callback (with the report just built; skipped when
\* no callback is registered), restore of the record saved for the signal,
\* re-raise; at the re-raise the signal's disposition is the one it had
\* before initialize and is not the engine's handler, and the invocation
\* ends with that one re-raise.
HandlerOrder ==
    {<<"idle", "entry">>, <<"entry", "idle">>, <<"entry", "passed">>,
     <<"passed", "handling">>, <<"handling", "captured">>,
     <<"captured", "formatted">>, <<"formatted", "built">>, <<"built", "called">>,
     <<"called", "restored">>, <<"restored", "idle">>}

C6_HandlerStepsInOrder ==
    /\ [][\A t \in Threads :
             thr'[t].pc # thr[t].pc =>
               /\ <<thr[t].pc, thr'[t].pc>> \in HandlerOrder
               /\ thr[t].pc = "built" =>
                    /\ crashJsonBuffer = BuildCrashJson(thr[t].sig, thr[t].info, t, thr[t].json)
                    /\ cbLog' = IF crashCallback = NULL THEN cbLog
                                ELSE Append(cbLog, [callback |-> crashCallback, thread |-> t,
                                                    sig |-> thr[t].sig,
                                                    report |-> crashJsonBuffer])
               /\ thr[t].pc # "built" => cbLog' = cbLog
               /\ thr[t].pc = "called" => disp'[thr[t].sig] = previousHandlers[thr[t].sig]
               /\ thr[t].pc = "restored" =>
                    lastOp' = SigOp("reraised", thr[t].sig, preInit[thr[t].sig])]_vars
    /\ [](\A t \in Threads :
             thr[t].pc = "restored" =>
               /\ disp[thr[t].sig] = preInit[thr[t].sig]
               /\ disp[thr[t].sig] # "signalHandler")

C6_Witness ==
    \E t \in Threads :
        /\ thr[t].pc = "restored"
        /\ preInit[thr[t].sig] = "hostHandler"
        /\ Len(cbLog) = 1 /\ cbLog[1].thread = t
        /\ cycle = "partial-init"


\* C7: formatStackTraceJson never writes at or beyond the end of its buffer:
\* the running offset stays at most the buffer size and no snprintf is
\* given an underflowed size, whatever the frame count and name lengths.
C7_OffsetStaysInBuffer ==
    ser.pc \in {"loop", "closed", "built"} =>
        /\ ser.w.offset <= StackTraceJsonSize
        /\ ~ser.w.underflow

\* C8: when the captured frames do not all fit, the document is still
\* complete: every frame object begun is stored whole, the array is closed,
\* and so is the top-level object of the report.
CannotFit == ser.w.frames < stackFrameCount \/ ser.w.strlen < ser.w.offset

C8_TruncatedDocumentComplete ==
    /\ (ser.pc \in {"closed", "built"} /\ CannotFit) =>
           (ser.w.whole = ser.w.frames /\ ser.w.closed)
    /\ (ser.pc = "built" /\ CannotFit) => WellFormed(crashJsonBuffer)

\* C9: when the call depth at the fault exceeds MAX_FRAMES, the report given
\* to the callback holds exactly MAX_FRAMES frame objects and is well-formed.
C9_DeepStackReportsMaxFrames ==
    (ser.pc = "built" /\ ser.scen.depth > MAX_FRAMES /\ ser.scen.zeroEvery = 0) =>
        /\ crashJsonBuffer.frames = MAX_FRAMES
        /\ WellFormed(crashJsonBuffer)

\* The non-zero instruction pointers of a walk, in order.
NonZero(walk) == SelectSeq(walk, LAMBDA pc : pc # 0)

\* C10: captureStackTrace returns min(number of non-zero return addresses,
\* maxFrames), fills exactly the indices below the count with the innermost
\* non-zero addresses in stack order and leaves the rest of the buffer
\* alone; stackFrameCount never exceeds MAX_FRAMES.
C10_CaptureBounded ==
    /\ stackFrameCount <= MAX_FRAMES
    /\ DOMAIN stackFrames = 0..(MAX_FRAMES - 1)
    /\ ser.pc \notin {"off", "start"} =>
         LET nz == NonZero(Walk(ser.scen))
         IN  /\ stackFrameCount = Min(Len(nz), MAX_FRAMES)
             /\ \A k \in 0..(MAX_FRAMES - 1) :
                    stackFrames[k] = IF k < stackFrameCount THEN nz[k + 1] ELSE 0

C10_Witness ==
    /\ ser.pc = "captured"
    /\ ser.scen.zeroEvery > 0
    /\ Len(NonZero(Walk(ser.scen))) > MAX_FRAMES
    /\ stackFrameCount = MAX_FRAMES

\* C11: a signal whose install failed in the last initialize behaves as if
\* the engine were never installed for it: neither that initialize nor a
\* later shutdown changes its disposition.
C11_FailedInstallUntouched ==
    [][(AllIdle /\ AllIdle' /\ lastOp'.op \in {"initialize", "shutdown"} /\ ~lastOp'.noop)
         => \A s \in installFailed' : disp'[s] = disp[s]]_vars

\* C12: an install failure for some signals does not prevent installation
\* for the others: after an initialize that did not return early, every
\* signal of the set whose install did not fail has the engine's handler
\* and its previous disposition saved, and the engine is initialized.
C12_PartialInstall ==
    [][(AllIdle /\ AllIdle' /\ lastOp'.op = "initialize" /\ ~lastOp'.noop)
         => /\ isInitialized' = 1
            /\ \A s \in Handled \ installFailed' :
                  /\ disp'[s] = "signalHandler"
                  /\ previousHandlers'[s] = disp[s]]_vars

C12_Witness ==
    /\ lastOp.op = "initialize" /\ ~lastOp.noop
    /\ installFailed = FailCandidates
    /\ isInitialized = 1
    /\ \A s \in installFailed : disp[s] = "hostHandler" \/ disp[s] = "SIG_IGN"
    /\ \A s \in Handled \ installFailed :
          disp[s] = "signalHandler" /\ previousHandlers[s] \in {"hostHandler", "SIG_IGN"}

\* C13: shutdown while the engine is not initialized (never initialized, or
\* already shut down) is a no-op: dispositions, saved records, callback,
\* initialized flag and reentrancy guard are unchanged; and isInitialized
\* returns the flag and changes no state of the engine.
C13_ShutdownUninitializedIsNoOp ==
    [][/\ (AllIdle /\ AllIdle' /\ lastOp'.op = "shutdown" /\ isInitialized = 0)
            => /\ lastOp'.noop
               /\ UNCHANGED <<disp, previousHandlers, crashCallback, isInitialized,
                              isHandlingCrash>>
       /\ (AllIdle /\ AllIdle' /\ lastOp'.op = "isInitialized")
            => /\ lastOp'.sig = isInitialized
               /\ UNCHANGED <<disp, previousHandlers, crashCallback, isInitialized,
                              isHandlingCrash, stackFrames, stackFrameCount,
                              crashJsonBuffer, altStack, allocations>>]_vars

C13_Witness ==
    /\ lastOp.op = "shutdown" /\ lastOp.noop
    /\ cycle = "shutdown"
    /\ isInitialized = 0 /\ isHandlingCrash = 1
    /\ \E s \in Handled : disp[s] = "hostHandler"

\* C14: the captured sequence starts at the point of signal delivery: index
\* 0 holds the faulting instruction's frame, and no captured address is a
\* frame of the engine's handler or of the signal trampoline.
C14_FirstFrameIsFault ==
    (ser.pc \notin {"off", "start"} /\ ser.scen.depth > 0) =>
        /\ stackFrames[0] = CrashPC(ser.scen, 1)
        /\ \A k \in 0..(stackFrameCount - 1) :
              \A j \in 1..Len(EngineFrames(ser.scen)) :
                  stackFrames[k] # EngineFrames(ser.scen)[j]

\* The signals the file header (lines 1-6) says are captured.
DocumentedSignals == {SIGSEGV, SIGABRT, SIGBUS, SIGFPE, SIGILL, SIGTRAP}

\* C15: the engine's handler is installed for no signal outside the six
\* documented ones, so no other signal trips the reentrancy guard or is the
\* subject of the single report.
C15_ExactlySixSignals ==
    /\ \A s \in Signals : disp[s] = "signalHandler" => s \in DocumentedSignals
    /\ \A t \in Threads : PastGuard(t) => thr[t].sig \in DocumentedSignals
    /\ \A k \in 1..Len(cbLog) : cbLog[k].sig \in DocumentedSignals

\* C16: the alternate signal stack region is allocated once per process:
\* over any sequence of initialize and shutdown calls at most one region is
\* ever allocated.
C16_AllocatedOnce == allocations <= 1

\* C17: on whichever thread a handled signal is received, and also when the
\* allocation of the region failed, the handler runs on the alternate stack.
C17_HandlerOnAlternateStack ==
    \A t \in Threads : thr[t].pc # "idle" => thr[t].stack = "alternate"

\* b is the final path component of path: it holds no '/', and path is b
\* alone or ends with '/' followed by b.
IsBaseName(b, path) ==
    /\ \A k \in 1..Len(b) : b[k] # "/"
    /\ Len(b) <= Len(path)
    /\ SubSeq(path, Len(path) - Len(b) + 1, Len(path)) = b
    /\ (Len(b) < Len(path) => path[Len(path) - Len(b)] = "/")

\* C18: for the frame just resolved, symbol and module are filled
\* independently: the symbol is the name found with offset = address minus
\* symbol start, or "???" with offset 0; the module is the final path
\* component of the binary's path, or "???"; this holds for every frame of
\* the loop, whatever became of the lookups before it.
C18_ResolverFillsFields ==
    (ser.pc = "loop" /\ ser.i > 0) =>
        LET addr == stackFrames[ser.i - 1]
            info == dladdr(symtab, addr)
        IN  /\ IF info.ok /\ ~info.dli_sname.null
               THEN /\ ser.res.symbolName = info.dli_sname.str
                    /\ ser.res.symbolOffset = addr - info.dli_saddr
               ELSE /\ ser.res.symbolName = Sentinel
                    /\ ser.res.symbolOffset = 0
            /\ IF info.ok /\ ~info.dli_fname.null
               THEN IsBaseName(ser.res.moduleName, info.dli_fname.str)
               ELSE ser.res.moduleName = Sentinel

C18_Witness ==
    /\ ser.pc = "loop" /\ ser.i >= 2
    /\ ~dladdr(symtab, stackFrames[ser.i - 2]).ok
    /\ dladdr(symtab, stackFrames[ser.i - 1]).ok
    /\ ser.res.symbolName # Sentinel /\ ser.res.symbolOffset > 0
    /\ ser.res.moduleName # Sentinel
    /\ Len(ser.res.moduleName) < Len(ModulePath)

\* C19: every step of the handler invoked for signal S leaves the
\* dispositions of all other signals, every saved record, the callback and
\* the initialized flag unchanged.
C19_HandlerChangesOnlyItsSignal ==
    [][\A t \in Threads :
          (thr[t].pc # "idle" /\ thr'[t] # thr[t])
            => /\ \A s \in Signals \ {thr[t].sig} : disp'[s] = disp[s]
               /\ UNCHANGED <<previousHandlers, crashCallback, isInitialized>>]_vars

C19_Witness ==
    /\ lastOp.op = "reraised" /\ alive /\ AllIdle
    /\ Len(cbLog) = 1 /\ crashCallback = cbLog[1].callback
    /\ isInitialized = 1
    /\ disp[lastOp.sig] = "SIG_IGN"
    /\ \A s \in Handled \ ({lastOp.sig} \cup installFailed) :
          disp[s] = "signalHandler" /\ previousHandlers[s] = preInit[s]
    /\ installFailed # Handled

\* C20: with sequential operations and a host that never installs the
\* engine's handler itself, no saved previous-disposition record holds the
\* engine's signalHandler, so restoring a record never re-installs it.
C20_SavedRecordNeverEngineHandler ==
    \A s \in Signals : previousHandlers[s] # "signalHandler"

C20_Witness ==
    /\ lastOp.op = "initialize" /\ ~lastOp.noop
    /\ isHandlingCrash = 1 /\ Len(cbLog) = 1
    /\ \E s \in Handled : disp[s] = "signalHandler" /\ previousHandlers[s] = "hostHandler"
    /\ \E s \in Handled : disp[s] = "signalHandler" /\ previousHandlers[s] = "SIG_IGN"

=============================================================================
